---- MODULE Spec2Model ----
(***************************************************************************)
(* A model of fjson2csv: the conversion of a flat JSON array of objects    *)
(* into CSV text, in its streaming (UnbufferedConvert) and in-memory       *)
(* (BufferedConvert) drivers.                                              *)
(*                                                                         *)
(* Text is a sequence of byte values (ASCII codes), so that Go's bytewise  *)
(* string comparison and the bytes written to the sink are what they are   *)
(* in the program.  A JSON number n/d is the pair (num, den).              *)
(***************************************************************************)
EXTENDS Integers, Sequences, FiniteSets, TLC

(***************************************************************************)
(* Bounds of the model.                                                    *)
(***************************************************************************)
\* the longest array of elements a source document holds
MaxRecords == 2
\* the sink may fail at its 1st .. MaxSinkCalls-th Write call (or never)
MaxSinkCalls == 3
\* the capacity, in bytes, of the small bufio.Writer of the buffered errWriter
SmallBuffer == 4
\* the largest count of the frequency tables the key sorter is tried on
MaxCount == 2
\* the numbers rendered on their own are n/d, -MaxNum <= n <= MaxNum, 1 <= d <= MaxDen
MaxNum == 12
MaxDen == 3
\* the buffer sizes asked for in Options are -1 .. MaxOption
MaxOption == 8

(***************************************************************************)
(* Text.                                                                   *)
(***************************************************************************)
str_test     == <<116, 101, 115, 116>>
str_example  == <<101, 120, 97, 109, 112, 108, 101>>
str_hello    == <<104, 101, 108, 108, 111>>
str_apples   == <<97, 112, 112, 108, 101, 115>>
str_angles   == <<97, 110, 103, 108, 101, 115>>
str_marbles  == <<109, 97, 114, 98, 108, 101, 115>>
str_feelings == <<102, 101, 101, 108, 105, 110, 103, 115>>
str_colors   == <<99, 111, 108, 111, 114, 115>>
str_true     == <<116, 114, 117, 101>>
str_false    == <<102, 97, 108, 115, 101>>
str_newline  == <<10>>
\* "h\ni": a JSON string that holds a line terminator
str_two_lines == <<104, 10, 105>>

default_delimiter == <<44>>

\* Go's < on strings: bytewise lexicographic, a proper prefix is smaller
RECURSIVE StrLess(_, _)
StrLess(a, b) ==
    IF b = <<>> THEN FALSE
    ELSE IF a = <<>> THEN TRUE
    ELSE IF Head(a) # Head(b) THEN Head(a) < Head(b)
    ELSE StrLess(Tail(a), Tail(b))

\* strings.Join(elems, sep)
RECURSIVE Join(_, _)
Join(elems, sep) ==
    IF elems = <<>> THEN <<>>
    ELSE IF Len(elems) = 1 THEN elems[1]
    ELSE elems[1] \o sep \o Join(Tail(elems), sep)

\* every ordering of the members of a finite set
RECURSIVE Orderings(_)
Orderings(S) ==
    IF S = {} THEN {<<>>}
    ELSE UNION {{<<x>> \o o : o \in Orderings(S \ {x})} : x \in S}

(***************************************************************************)
(* JSON values and their text.                                             *)
(***************************************************************************)
StringValue(s)    == [kind |-> "string",  str |-> s,    num |-> 0, den |-> 1, bool |-> FALSE]
NumberValue(n, d) == [kind |-> "float64", str |-> <<>>, num |-> n, den |-> d, bool |-> FALSE]
BoolValue(b)      == [kind |-> "bool",    str |-> <<>>, num |-> 0, den |-> 1, bool |-> b]
NilValue          == [kind |-> "nil",     str |-> <<>>, num |-> 0, den |-> 1, bool |-> FALSE]

\* the conversion rounding down instead of toward zero
Int64Of_Floor(n, d) == n \div d

\* int64(f) for the float64 f = n/d: the fraction is discarded (toward zero)
Int64Of(n, d) == IF n >= 0 THEN n \div d ELSE -((-n) \div d)

RECURSIVE Digits(_)
Digits(n) == IF n < 10 THEN <<48 + n>> ELSE Digits(n \div 10) \o <<48 + (n % 10)>>

\* strconv.FormatInt(n, 10)
FormatInt(n) == IF n < 0 THEN <<45>> \o Digits(-n) ELSE Digits(n)

\* toString printing nil as fmt would
toString_NilText(value) ==
    CASE value.kind = "string"  -> value.str
      [] value.kind = "float64" -> FormatInt(Int64Of(value.num, value.den))
      [] value.kind = "bool"    -> IF value.bool THEN str_true ELSE str_false
      [] OTHER                  -> <<60, 110, 105, 108, 62>>

toString(value) ==
    CASE value.kind = "string"  -> value.str
      [] value.kind = "float64" -> FormatInt(Int64Of(value.num, value.den))
      [] value.kind = "bool"    -> IF value.bool THEN str_true ELSE str_false
      [] OTHER                  -> <<>>

(***************************************************************************)
(* The field frequency table (c.Keys) and the key sorter.                  *)
(***************************************************************************)
EmptyMap == <<>>

\* c.Keys[k]: a missing key reads as the zero value
KeysGet(keys, k) == IF k \in DOMAIN keys THEN keys[k] ELSE 0

\* c.Keys[k] = v
KeysPut(keys, k, v) == [x \in DOMAIN keys \cup {k} |-> IF x = k THEN v ELSE keys[x]]

\* extractKeys leaving its loop after the first key
extractKeys_FirstOnly(order, keys) ==
    IF order = <<>> THEN keys
    ELSE KeysPut(keys, Head(order), KeysGet(keys, Head(order)) + 1)

\* extractKeys storing 1 where it should add 1
RECURSIVE extractKeys_SetOne(_, _)
extractKeys_SetOne(order, keys) ==
    IF order = <<>> THEN keys
    ELSE extractKeys_SetOne(Tail(order), KeysPut(keys, Head(order), 1))

\* extractKeys starting a new key at the size of the table, not at 0
RECURSIVE extractKeys_InitLen(_, _)
extractKeys_InitLen(order, keys) ==
    IF order = <<>> THEN keys
    ELSE LET key   == Head(order)
             keys0 == IF key \in DOMAIN keys THEN keys
                      ELSE KeysPut(keys, key, Cardinality(DOMAIN keys))
         IN  extractKeys_InitLen(Tail(order), KeysPut(keys0, key, keys0[key] + 1))

\* the loop of extractKeys over the record's keys, visited in `order`
RECURSIVE extractKeys(_, _)
extractKeys(order, keys) ==
    IF order = <<>> THEN keys
    ELSE LET key   == Head(order)
             keys0 == IF key \in DOMAIN keys THEN keys ELSE KeysPut(keys, key, 0)
         IN  extractKeys(Tail(order), KeysPut(keys0, key, keys0[key] + 1))

\* Less breaking ties on the length of the names only
Less_ByLength(keys, s, i, j) ==
    LET a == KeysGet(keys, s[i])
        b == KeysGet(keys, s[j])
    IN  IF a # b THEN a > b ELSE Len(s[i]) < Len(s[j])

\* Less without its tie-break on the names
Less_NoTieBreak(keys, s, i, j) == KeysGet(keys, s[i]) > KeysGet(keys, s[j])

\* Less with the tie-break turned round
Less_Descending(keys, s, i, j) ==
    LET a == KeysGet(keys, s[i])
        b == KeysGet(keys, s[j])
    IN  IF a # b THEN a > b ELSE StrLess(s[j], s[i])

Less(keys, s, i, j) ==
    LET a == KeysGet(keys, s[i])
        b == KeysGet(keys, s[j])
    IN  IF a # b THEN a > b ELSE StrLess(s[i], s[j])

Swap(s, i, j) == [s EXCEPT ![i] = s[j], ![j] = s[i]]

\* sort.Sort on a short slice: insertion sort by Less and Swap
RECURSIVE SortInner(_, _, _)
SortInner(keys, s, j) ==
    IF j > 1 /\ Less(keys, s, j, j - 1)
    THEN SortInner(keys, Swap(s, j, j - 1), j - 1)
    ELSE s

RECURSIVE SortFrom(_, _, _)
SortFrom(keys, s, i) ==
    IF i > Len(s) THEN s ELSE SortFrom(keys, SortInner(keys, s, i), i + 1)

Sort(keys, s) == SortFrom(keys, s, 2)

(***************************************************************************)
(* The source documents.  A document is its first token, the elements      *)
(* that follow, and whether the closing bracket is there:                  *)
(*   first = "["      an array: elems, then "]" when closed                *)
(*   first = "{"      a top-level object (elems[1]), with a stray "]"      *)
(*                    after it when closed: the missing opening bracket    *)
(*   first = "scalar" a top-level scalar, then further top-level values    *)
(*                    (the closing token fails at the end of the input as  *)
(*                    it does at a stray "]", so closed is left FALSE)     *)
(*   first = "none"   an empty or unreadable source                        *)
(* An element is an object (a record of scalar fields), a value that is    *)
(* no object, or text that does not decode.                                *)
(***************************************************************************)
FieldValues(name) ==
    IF name = str_test
    THEN {StringValue(str_hello), NilValue}
    ELSE {NumberValue(42, 1), NumberValue(12, 1)}

FieldNames == {str_test, str_example}

Records ==
    UNION {[names -> UNION {FieldValues(n) : n \in names}] : names \in SUBSET FieldNames}

WellTypedRecords == {r \in Records : \A n \in DOMAIN r : r[n] \in FieldValues(n)}

ObjectElement(r) == [kind |-> "object", fields |-> r]
ScalarElement    == [kind |-> "scalar", fields |-> EmptyMap]
InvalidElement   == [kind |-> "invalid", fields |-> EmptyMap]

Elements == {ObjectElement(r) : r \in WellTypedRecords} \cup {ScalarElement, InvalidElement}

RECURSIVE SeqsUpTo(_, _)
SeqsUpTo(S, n) ==
    IF n = 0 THEN {<<>>}
    ELSE LET shorter == SeqsUpTo(S, n - 1)
         IN  shorter \cup {Append(q, x) : q \in {t \in shorter : Len(t) = n - 1}, x \in S}

Documents ==
    [first : {"["}, elems : SeqsUpTo(Elements, MaxRecords), closed : BOOLEAN]
    \cup [first : {"scalar"}, elems : SeqsUpTo(Elements, MaxRecords), closed : {FALSE}]
    \cup [first : {"{"}, elems : {<<ObjectElement(r)>> : r \in WellTypedRecords}, closed : BOOLEAN]
    \cup {[first |-> "none", elems |-> <<>>, closed |-> FALSE]}

default_write_buffer_size == 1024
default_read_buffer_size == 1024

\* getBufferSizes: the pair rsize * 1000, wsize * 1000, where a size is the
\* option's value when that is below 1 and the default otherwise
getBufferSizes(o) ==
    LET rsize == IF o.ReadBufferSize < 1 THEN o.ReadBufferSize ELSE default_read_buffer_size
        wsize == IF o.WriteBufferSize < 1 THEN o.WriteBufferSize ELSE default_write_buffer_size
    IN  <<rsize * 1000, wsize * 1000>>

\* Options{}: the options a caller leaves unset
NoOptions == [ReadBufferSize |-> 0, WriteBufferSize |-> 0]

VARIABLES
    g,          \* the sample-data generator: its options, headers, record and position
    opts,       \* the Options of the call
    sizes,      \* rsize, wsize: what getBufferSizes returned for opts
    doc,        \* the bytes behind c.Source, as a document
    seekable,   \* whether c.Source.Seek succeeds
    writer,     \* "plain": errWriter over the sink; "bufio": errWriter over a bufio.Writer
    writeSize,  \* the capacity of the bufio.Writer (0 for "plain")
    sinkFailAt, \* the sink's Write call that fails, with all after it (0: none)
    mode,       \* the conversion that is running: "unbuffered", "buffered" or "none"
    pc,         \* where the running conversion is
    pass,       \* "index" or "emit": which walk is going on
    Keys,       \* c.Keys
    sorted,     \* c.sorted
    buffer,     \* c.buffer
    err,        \* c.err ("nil" when there is none)
    pos,        \* the decoder's position: the index of the next element
    cursor,     \* the source's cursor: "start" or "moved"
    ew,         \* the errWriter: its err and the bytes its bufio.Writer holds
    sink,       \* c.Destination: the bytes written to it and the Write calls made
    i,          \* the loop index of BufferedConvert
    results     \* the outcome of each finished conversion

vars == <<g, opts, sizes, doc, seekable, writer, writeSize, sinkFailAt, mode, pc, pass, Keys, sorted,
          buffer, err, pos, cursor, ew, sink, i, results>>

env == <<g, opts, sizes, doc, seekable, writer, writeSize, sinkFailAt>>

LargeBuffer == 64

NoResult == [status |-> "none", err |-> "nil", out |-> <<>>]

\* no generator is running
NoGenerator == [pc |-> "none"]

Init ==
    /\ g = NoGenerator
    /\ opts = NoOptions
    /\ sizes = getBufferSizes(opts)
    /\ doc \in Documents
    /\ seekable \in BOOLEAN
    /\ \/ writer = "plain" /\ writeSize = 0
       \/ writer = "bufio" /\ writeSize \in {SmallBuffer, LargeBuffer}
    /\ sinkFailAt \in 0..MaxSinkCalls
    /\ mode = "none"
    /\ pc = "idle"
    /\ pass = "index"
    /\ Keys = EmptyMap
    /\ sorted = <<>>
    /\ buffer = <<>>
    /\ err = "nil"
    /\ pos = 1
    /\ cursor = "start"
    /\ ew = [err |-> FALSE, buf |-> <<>>]
    /\ sink = [out |-> <<>>, calls |-> 0]
    /\ i = 1
    /\ results = [m \in {"unbuffered", "buffered"} |-> NoResult]

(***************************************************************************)
(* The errWriter.  A writer state W is the errWriter's err and buffered    *)
(* bytes with the sink's bytes and count of Write calls.                   *)
(***************************************************************************)
WriterState(e, s) == [err |-> e.err, buf |-> e.buf, out |-> s.out, calls |-> s.calls]

\* c.Destination.Write(data)
SinkWrite(W, data) ==
    IF sinkFailAt # 0 /\ W.calls + 1 >= sinkFailAt
    THEN [W EXCEPT !.calls = @ + 1, !.err = TRUE]
    ELSE [W EXCEPT !.calls = @ + 1, !.out = @ \o data]

\* bufio.Writer.Flush
BufFlush(W) ==
    IF W.err \/ W.buf = <<>> THEN W
    ELSE LET S == SinkWrite(W, W.buf)
         IN  IF S.err THEN S ELSE [S EXCEPT !.buf = <<>>]

\* bufio.Writer.Write(p)
RECURSIVE BufWrite(_, _)
BufWrite(W, p) ==
    LET avail == writeSize - Len(W.buf)
    IN  IF W.err THEN W
        ELSE IF Len(p) <= avail THEN [W EXCEPT !.buf = @ \o p]
        ELSE IF W.buf = <<>> THEN SinkWrite(W, p)
        ELSE BufWrite(BufFlush([W EXCEPT !.buf = @ \o SubSeq(p, 1, avail)]),
                      SubSeq(p, avail + 1, Len(p)))

\* errWriter.write(value)
write(W, value) ==
    LET data == toString(value)
    IN  IF W.err THEN W
        ELSE IF writer = "plain" THEN SinkWrite(W, data)
        ELSE IF Len(data) > writeSize - Len(W.buf)
             THEN BufWrite(BufFlush(W), data)
             ELSE BufWrite(W, data)

\* errWriter.flush(); the plain errWriter has none
flush(W) == IF writer = "plain" \/ W.err THEN W ELSE BufFlush(W)

RECURSIVE writeAll(_, _)
writeAll(W, values) ==
    IF values = <<>> THEN W ELSE writeAll(write(W, Head(values)), Tail(values))

newErrorWriter == [err |-> FALSE, buf |-> <<>>]

\* the header line: fmt.Sprintf("%s\n", strings.Join(c.sorted, c.delimiter))
HeaderLine(s) == StringValue(Join(s, default_delimiter) \o str_newline)

\* the values writeRecord (and the loop body of BufferedConvert) writes for a
\* record, in order; s is c.sorted and is not empty
\* the later cells with nothing at all written for a missing field
RECURSIVE RestCells_NoFill(_, _)
RestCells_NoFill(record, keys) ==
    IF keys = <<>> THEN <<>>
    ELSE (IF Head(keys) \in DOMAIN record
          THEN <<StringValue(default_delimiter), record[Head(keys)]>>
          ELSE <<>>)
         \o RestCells_NoFill(record, Tail(keys))

RECURSIVE RestCells(_, _)
RestCells(record, keys) ==
    IF keys = <<>> THEN <<>>
    ELSE <<StringValue(default_delimiter),
           IF Head(keys) \in DOMAIN record THEN record[Head(keys)] ELSE StringValue(<<>>)>>
         \o RestCells(record, Tail(keys))

RowValues(record, s) ==
    (IF s[1] \in DOMAIN record THEN <<record[s[1]]>> ELSE <<>>)
    \o RestCells(record, Tail(s))
    \o <<StringValue(str_newline)>>

writeRecord(W, record, s) == writeAll(W, RowValues(record, s))

(***************************************************************************)
(* The conversion, step by step.                                           *)
(***************************************************************************)
SetWriter(W) ==
    /\ ew' = [err |-> W.err, buf |-> W.buf]
    /\ sink' = [out |-> W.out, calls |-> W.calls]

\* the converter both drivers construct, over a fresh source and sink
NewConverter(m) ==
    /\ mode' = m
    /\ Keys' = EmptyMap
    /\ sorted' = <<>>
    /\ buffer' = <<>>
    /\ err' = "nil"
    /\ pass' = "index"
    /\ pos' = 1
    /\ cursor' = "start"
    /\ ew' = newErrorWriter
    /\ sink' = [out |-> <<>>, calls |-> 0]
    /\ i' = 1
    /\ pc' = "walk_open"
    /\ UNCHANGED <<env, results>>

UnbufferedConvert ==
    /\ pc = "idle"
    /\ results["unbuffered"].status = "none"
    /\ NewConverter("unbuffered")

BufferedConvert ==
    /\ pc = "idle"
    /\ results["unbuffered"].status # "none"
    /\ results["buffered"].status = "none"
    /\ NewConverter("buffered")

\* where a walk returns to: IndexFields sorts next, WriteCsv flushes next
AfterWalk == IF pass = "index" THEN "sort" ELSE "write_end"

\* WalkJsonList: the decoder is made and the opening token is read
WalkOpen ==
    /\ pc = "walk_open"
    /\ pos' = 1
    /\ cursor' = "moved"
    /\ IF cursor # "start" \/ doc.first = "none"
       THEN err' = "malformed JSON" /\ pc' = AfterWalk
       ELSE IF doc.first # "["
       THEN err' = "malformed JSON: document must be an array of objects" /\ pc' = "walk_loop"
       ELSE err' = err /\ pc' = "walk_loop"
    /\ UNCHANGED <<env, mode, pass, Keys, sorted, buffer, ew, sink, i, results>>

\* dec.More(): the next byte is neither "]" nor "}" nor the end of the input
More ==
    IF doc.first = "{"
    THEN pos = 1 /\ DOMAIN doc.elems[1].fields # {}
    ELSE pos <= Len(doc.elems)

\* every conversion indexing with the buffering callback
IndexCallback_AlwaysBuffer(m) == "bufferData"

\* the callback the driver hands to IndexFields
IndexCallback(m) == IF m = "buffered" THEN "bufferData" ELSE "extractKeys"

\* the callback's failure is not looked at
CallbackFailed_Ignored(W) == FALSE

\* if err := fn(m, args...); err != nil
CallbackFailed(W) == W.err

\* WalkJsonList: one turn of the loop, the element is decoded and handed to the callback
WalkElement ==
    /\ pc = "walk_loop"
    /\ More
    /\ LET e == doc.elems[pos]
       IN  IF doc.first = "{" \/ e.kind = "invalid"
           THEN \* dec.Decode fails
                /\ err' = "decode"
                /\ pc' = AfterWalk
                /\ UNCHANGED <<pos, Keys, buffer, ew, sink>>
           ELSE IF e.kind # "object"
           THEN \* record.(map[string]interface{}) panics
                /\ pc' = "panic"
                /\ UNCHANGED <<pos, err, Keys, buffer, ew, sink>>
           ELSE IF pass = "index"
           THEN \* extractKeys, or bufferData which appends and calls it
                /\ \E order \in Orderings(DOMAIN e.fields) : Keys' = extractKeys(order, Keys)
                /\ buffer' = IF IndexCallback(mode) = "bufferData"
                             THEN Append(buffer, e.fields)
                             ELSE buffer
                /\ pos' = pos + 1
                /\ UNCHANGED <<pc, err, ew, sink>>
           ELSE IF sorted = <<>>
           THEN \* writeRecord: c.sorted[0] is out of range
                /\ pc' = "panic"
                /\ UNCHANGED <<pos, err, Keys, buffer, ew, sink>>
           ELSE \* writeRecord
                LET W == writeRecord(WriterState(ew, sink), e.fields, sorted)
                IN  /\ SetWriter(W)
                    /\ IF CallbackFailed(W)
                       THEN err' = "sink" /\ pc' = AfterWalk /\ pos' = pos
                       ELSE err' = err /\ pc' = pc /\ pos' = pos + 1
                    /\ UNCHANGED <<Keys, buffer>>
    /\ UNCHANGED <<env, mode, pass, sorted, cursor, i, results>>

\* a walk that ends without rewinding the source
WalkClose_NoRewind ==
    /\ pc = "walk_loop"
    /\ ~More
    /\ IF (doc.first = "[" /\ ~doc.closed) \/ doc.first = "scalar"
       THEN err' = "malformed JSON: array does not end properly" /\ cursor' = cursor
       ELSE err' = err /\ cursor' = cursor
    /\ pc' = AfterWalk
    /\ UNCHANGED <<env, mode, pass, Keys, sorted, buffer, pos, ew, sink, i, results>>

\* WalkJsonList: the loop is over, the closing token is read and the source rewound
WalkClose ==
    /\ pc = "walk_loop"
    /\ ~More
    /\ IF (doc.first = "[" /\ ~doc.closed) \/ doc.first = "scalar"
       THEN err' = "malformed JSON: array does not end properly" /\ cursor' = cursor
       ELSE IF seekable
       THEN err' = err /\ cursor' = "start"
       ELSE err' = "file read failure" /\ cursor' = cursor
    /\ pc' = AfterWalk
    /\ UNCHANGED <<env, mode, pass, Keys, sorted, buffer, pos, ew, sink, i, results>>

\* IndexFields, after its walk: the keys are collected in the map's order and sorted
IndexFields ==
    /\ pc = "sort"
    /\ \E order \in Orderings(DOMAIN Keys) : sorted' = Sort(Keys, order)
    /\ pc' = IF mode = "unbuffered" THEN "write_csv" ELSE "buffered_header"
    /\ UNCHANGED <<env, mode, pass, Keys, buffer, err, pos, cursor, ew, sink, i, results>>

\* WriteCsv without its two early returns
WriteCsv_NoGuard ==
    /\ pc = "write_csv"
    /\ SetWriter(write(WriterState(newErrorWriter, sink), HeaderLine(sorted)))
    /\ pass' = "emit"
    /\ pc' = "walk_open"
    /\ UNCHANGED <<env, mode, Keys, sorted, buffer, err, pos, cursor, i, results>>

\* WriteCsv, up to its walk: the two early returns, then the header
WriteCsv ==
    /\ pc = "write_csv"
    /\ IF err # "nil" \/ Len(sorted) = 0
       THEN /\ pc' = "return"
            /\ UNCHANGED <<pass, ew, sink>>
       ELSE /\ SetWriter(write(WriterState(newErrorWriter, sink), HeaderLine(sorted)))
            /\ pass' = "emit"
            /\ pc' = "walk_open"
    /\ UNCHANGED <<env, mode, Keys, sorted, buffer, err, pos, cursor, i, results>>

\* WriteCsv, after its walk: w.flush(), whose error stays in the errWriter
WriteCsvEnd ==
    /\ pc = "write_end"
    /\ SetWriter(flush(WriterState(ew, sink)))
    /\ pc' = "return"
    /\ UNCHANGED <<env, mode, pass, Keys, sorted, buffer, err, pos, cursor, i, results>>

\* BufferedConvert: the header is written, whatever IndexFields left in c.err
BufferedHeader ==
    /\ pc = "buffered_header"
    /\ SetWriter(write(WriterState(newErrorWriter, sink), HeaderLine(sorted)))
    /\ i' = 1
    /\ pc' = "buffered_loop"
    /\ UNCHANGED <<env, mode, pass, Keys, sorted, buffer, err, pos, cursor, results>>

\* BufferedConvert: one turn of the loop over c.buffer
BufferedRow ==
    /\ pc = "buffered_loop"
    /\ i <= Len(buffer)
    /\ IF sorted = <<>>
       THEN \* c.sorted[0] is out of range
            /\ pc' = "panic"
            /\ UNCHANGED <<err, ew, sink, i>>
       ELSE LET W == writeRecord(WriterState(ew, sink), buffer[i], sorted)
            IN  /\ SetWriter(W)
                /\ IF W.err
                   THEN err' = "sink" /\ pc' = "buffered_end" /\ i' = i
                   ELSE err' = err /\ pc' = pc /\ i' = i + 1
    /\ UNCHANGED <<env, mode, pass, Keys, sorted, buffer, pos, cursor, results>>

\* BufferedConvert, after the loop: ew.flush(), whose error stays in the errWriter
BufferedEnd ==
    /\ \/ pc = "buffered_loop" /\ i > Len(buffer)
       \/ pc = "buffered_end"
    /\ SetWriter(flush(WriterState(ew, sink)))
    /\ pc' = "return"
    /\ UNCHANGED <<env, mode, pass, Keys, sorted, buffer, err, pos, cursor, i, results>>

\* both drivers: c.err, or nil, goes back to the caller
Return ==
    /\ pc = "return"
    /\ results' = [results EXCEPT ![mode] =
                      [status |-> IF err # "nil" THEN "error" ELSE "ok",
                       err |-> err, out |-> sink.out]]
    /\ pc' = "idle"
    /\ UNCHANGED <<env, mode, pass, Keys, sorted, buffer, err, pos, cursor, ew, sink, i>>

\* a panic unwinds the conversion: nothing is returned, nothing is flushed
Panic ==
    /\ pc = "panic"
    /\ results' = [results EXCEPT ![mode] =
                      [status |-> "panic", err |-> err, out |-> sink.out]]
    /\ pc' = "idle"
    /\ UNCHANGED <<env, mode, pass, Keys, sorted, buffer, err, pos, cursor, ew, sink, i>>

Next ==
    \/ UnbufferedConvert
    \/ BufferedConvert
    \/ WalkOpen
    \/ WalkElement
    \/ WalkClose
    \/ IndexFields
    \/ WriteCsv
    \/ WriteCsvEnd
    \/ BufferedHeader
    \/ BufferedRow
    \/ BufferedEnd
    \/ Return
    \/ Panic

Spec == Init /\ [][Next]_vars

(***************************************************************************)
(* The key sorter on its own: IndexFields' collect-and-sort applied to a   *)
(* converter whose frequency table is given, as the package's tests build  *)
(* one.                                                                    *)
(***************************************************************************)
SortNames == {str_apples, str_angles, str_marbles, str_feelings, str_colors}

FixtureTable ==
    [n \in SortNames |->
        CASE n = str_apples   -> 4
          [] n = str_angles   -> 4
          [] n = str_marbles  -> 12
          [] n = str_feelings -> 1
          [] n = str_colors   -> 1]

SortTables ==
    UNION {[names -> 1..MaxCount] : names \in SUBSET SortNames} \cup {FixtureTable}

SortInit ==
    /\ g = NoGenerator
    /\ opts = NoOptions
    /\ sizes = getBufferSizes(opts)
    /\ doc = [first |-> "none", elems |-> <<>>, closed |-> FALSE]
    /\ seekable = TRUE
    /\ writer = "plain"
    /\ writeSize = 0
    /\ sinkFailAt = 0
    /\ mode = "unbuffered"
    /\ pc = "sort"
    /\ pass = "index"
    /\ Keys \in SortTables
    /\ sorted = <<>>
    /\ buffer = <<>>
    /\ err = "nil"
    /\ pos = 1
    /\ cursor = "start"
    /\ ew = newErrorWriter
    /\ sink = [out |-> <<>>, calls |-> 0]
    /\ i = 1
    /\ results = [m \in {"unbuffered", "buffered"} |-> NoResult]

SortNext == IndexFields

SortSpec == SortInit /\ [][SortNext]_vars

(***************************************************************************)
(* getBufferSizes on its own: the sizes a conversion takes from Options,   *)
(* for every pair of options in the bounds.                                *)
(***************************************************************************)
OptionsInit ==
    /\ g = NoGenerator
    /\ opts \in [ReadBufferSize : (-1)..MaxOption, WriteBufferSize : (-1)..MaxOption]
    /\ sizes = <<0, 0>>
    /\ doc = [first |-> "none", elems |-> <<>>, closed |-> FALSE]
    /\ seekable = TRUE
    /\ writer = "bufio"
    /\ writeSize = LargeBuffer
    /\ sinkFailAt = 0
    /\ mode = "none"
    /\ pc = "options"
    /\ pass = "index"
    /\ Keys = EmptyMap
    /\ sorted = <<>>
    /\ buffer = <<>>
    /\ err = "nil"
    /\ pos = 1
    /\ cursor = "start"
    /\ ew = [err |-> FALSE, buf |-> <<>>]
    /\ sink = [out |-> <<>>, calls |-> 0]
    /\ i = 1
    /\ results = [m \in {"unbuffered", "buffered"} |-> NoResult]

\* rsize, wsize := getBufferSizes(opts)
GetBufferSizes ==
    /\ pc = "options"
    /\ sizes' = getBufferSizes(opts)
    /\ pc' = "sized"
    /\ UNCHANGED <<g, opts, doc, seekable, writer, writeSize, sinkFailAt, mode, pass, Keys,
                   sorted, buffer, err, pos, cursor, ew, sink, i, results>>

OptionsNext == GetBufferSizes

OptionsSpec == OptionsInit /\ [][OptionsNext]_vars

(***************************************************************************)
(* The sample-data generator (cmd/fjson2csv-data).  Its sink takes every   *)
(* write.  A header is known by its index 0 .. len(g.Headers) - 1, a       *)
(* record by the set of header indices it holds; byte counts are scaled:   *)
(* MegaByte stands for the 1048576 bytes of one unit of Size, and a        *)
(* record of k members encodes to 2 + 3k bytes.  rand.Intn(n) is any of    *)
(* 0 .. n - 1 and panics when n < 1.                                       *)
(***************************************************************************)
\* the flags -f and -m are 0 .. MaxFieldsFlag and 0 .. MaxSizeFlag
MaxFieldsFlag == 4
MaxSizeFlag == 2
MegaByte == 16

\* main: the flags are clamped (fields to 1 .. 20, size to 1 and more)
ClampFields(f) == IF f < 1 THEN 1 ELSE IF f > 20 THEN 20 ELSE f
ClampSize(m) == IF m < 1 THEN 1 ELSE m

\* len(encoded), for a record that holds the headers m
EncodedLen(m) == 2 + 3 * Cardinality(m)

GeneratorInit ==
    /\ g \in [pc : {"main"}, fieldsFlag : 0..MaxFieldsFlag, sizeFlag : 0..MaxSizeFlag,
              Fields : {0}, Size : {0}, Headers : {0}, written : {0}, first : {TRUE},
              f : {0}, fields : {0}, i : {0}, n : {0}, m : {{}}]
    /\ opts = NoOptions
    /\ sizes = getBufferSizes(opts)
    /\ doc = [first |-> "none", elems |-> <<>>, closed |-> FALSE]
    /\ seekable = TRUE
    /\ writer = "plain"
    /\ writeSize = 0
    /\ sinkFailAt = 0
    /\ mode = "none"
    /\ pc = "generator"
    /\ pass = "index"
    /\ Keys = EmptyMap
    /\ sorted = <<>>
    /\ buffer = <<>>
    /\ err = "nil"
    /\ pos = 1
    /\ cursor = "start"
    /\ ew = [err |-> FALSE, buf |-> <<>>]
    /\ sink = [out |-> <<>>, calls |-> 0]
    /\ i = 1
    /\ results = [m \in {"unbuffered", "buffered"} |-> NoResult]

\* a step of the generator
GeneratorStep(next) ==
    /\ g' = next
    /\ UNCHANGED <<opts, sizes, doc, seekable, writer, writeSize, sinkFailAt, mode, pc, pass,
                   Keys, sorted, buffer, err, pos, cursor, ew, sink, i, results>>

\* main, up to newGenerator
GeneratorMain ==
    /\ g.pc = "main"
    /\ GeneratorStep([g EXCEPT !.Fields = ClampFields(g.fieldsFlag),
                               !.Size = ClampSize(g.sizeFlag),
                               !.pc = "headers"])

\* GenerateHeaders: one random name is appended for each of the Fields
GenerateHeaders ==
    /\ g.pc = "headers"
    /\ GeneratorStep([g EXCEPT !.Headers = g.Fields, !.pc = "data"])

\* GenerateData, up to its first record: the test on the headers, then "[\n"
GenerateData ==
    /\ g.pc = "data"
    /\ IF g.Headers = 0
       THEN GeneratorStep([g EXCEPT !.pc = "failed"])
       ELSE GeneratorStep([g EXCEPT !.written = 2, !.first = TRUE, !.pc = "record"])

\* generateRecord, up to its loop: the two draws
generateRecord ==
    /\ g.pc = "record"
    /\ IF g.Headers - 1 < 1 \/ g.Fields - 1 < 1
       THEN \* rand.Intn panics
            GeneratorStep([g EXCEPT !.pc = "panic"])
       ELSE \E f \in 0..(g.Headers - 2), fields \in 1..(g.Fields - 1) :
                GeneratorStep([g EXCEPT !.m = {}, !.f = f, !.fields = fields, !.i = 0,
                                        !.pc = "record_loop"])

\* generateRecord: one turn of its loop, up to the first draw of n
generateRecordLoop ==
    /\ g.pc = "record_loop"
    /\ IF g.i < g.fields
       THEN \E n \in 0..(g.Headers - 2) :
                GeneratorStep([g EXCEPT !.m = g.m \cup {g.f}, !.n = n, !.pc = "redraw"])
       ELSE GeneratorStep([g EXCEPT !.pc = "write"])

\* generateRecord: for n == f { n = rand.Intn(len(g.Headers) - 1) }, then f = n
generateRecordRedraw ==
    /\ g.pc = "redraw"
    /\ IF g.n = g.f
       THEN \E n \in 0..(g.Headers - 2) : GeneratorStep([g EXCEPT !.n = n])
       ELSE GeneratorStep([g EXCEPT !.f = g.n, !.i = g.i + 1, !.pc = "record_loop"])

\* GenerateData: the record is written, after a "," unless it is the first
GenerateDataWrite ==
    /\ g.pc = "write"
    /\ GeneratorStep([g EXCEPT !.written = g.written + (IF g.first THEN 0 ELSE 1)
                                           + EncodedLen(g.m) + 1,
                               !.first = FALSE,
                               !.pc = "loop"])

\* GenerateData: for written < limit, and the closing "]\n" after the loop
GenerateDataLoop ==
    /\ g.pc = "loop"
    /\ IF g.written < g.Size * MegaByte
       THEN GeneratorStep([g EXCEPT !.pc = "record"])
       ELSE GeneratorStep([g EXCEPT !.pc = "done"])

GeneratorNext ==
    \/ GeneratorMain
    \/ GenerateHeaders
    \/ GenerateData
    \/ generateRecord
    \/ generateRecordLoop
    \/ generateRecordRedraw
    \/ GenerateDataWrite
    \/ GenerateDataLoop

GeneratorSpec == GeneratorInit /\ [][GeneratorNext]_vars

\* the generator is a sequential program: it takes a step whenever one that
\* changes its state is there to take
GeneratorFairSpec == GeneratorSpec /\ WF_vars(GeneratorNext)

(***************************************************************************)
(* The claims.                                                             *)
(***************************************************************************)
Modes == {"unbuffered", "buffered"}

AllObjects == \A k \in 1..Len(doc.elems) : doc.elems[k].kind = "object"

\* a top-level array of flat objects, properly closed
WellFormed == doc.first = "[" /\ doc.closed /\ AllObjects

Finished(m) == results[m].status # "none"

Bytes_example_test == str_example \o default_delimiter \o str_test \o str_newline

FixtureElems ==
    <<ObjectElement([n \in {str_test, str_example} |->
                        IF n = str_test THEN StringValue(str_hello) ELSE NumberValue(42, 1)]),
      ObjectElement([n \in {str_example} |-> NumberValue(12, 1)])>>

FixtureCsv ==
    Bytes_example_test
    \o <<52, 50>> \o default_delimiter \o str_hello \o str_newline
    \o <<49, 50>> \o default_delimiter \o str_newline

\* C1 (as claimed): for every well-formed input, read from a source that seeks
\* and written to a sink that takes every write, UnbufferedConvert and
\* BufferedConvert leave the same bytes in the sink and the same outcome.
C1_ModeEquivalence ==
    (WellFormed /\ seekable /\ sinkFailAt = 0 /\ Finished("unbuffered") /\ Finished("buffered"))
        => /\ results["unbuffered"].out = results["buffered"].out
           /\ results["unbuffered"].status = results["buffered"].status

\* C2 (as claimed): converting the empty array, with a sink that takes every
\* write, writes no byte to the sink and succeeds, in both modes.
C2_EmptyArrayWritesNothing ==
    \A m \in Modes :
        (/\ doc = [first |-> "[", elems |-> <<>>, closed |-> TRUE]
         /\ seekable
         /\ sinkFailAt = 0
         /\ Finished(m))
            => results[m].status = "ok" /\ results[m].out = <<>>

Sorted == pc \in {"write_csv", "buffered_header"}

Count(p) == KeysGet(Keys, sorted[p])

\* C3 (as claimed): in the column order, A precedes B iff count(A) > count(B), or
\* the counts are equal and A is lexicographically GREATER than B.
C3_DescendingTieBreak ==
    Sorted =>
        \A p, q \in 1..Len(sorted) :
            p # q =>
                ((p < q) <=> (Count(p) > Count(q)
                              \/ (Count(p) = Count(q) /\ StrLess(sorted[q], sorted[p]))))

\* C3 (amended): in the column order, A precedes B iff count(A) > count(B), or
\* the counts are equal and A is lexicographically SMALLER than B.
C3_AscendingTieBreak ==
    Sorted =>
        \A p, q \in 1..Len(sorted) :
            p # q =>
                ((p < q) <=> (Count(p) > Count(q)
                              \/ (Count(p) = Count(q) /\ StrLess(sorted[p], sorted[q]))))

C3_Witness ==
    /\ Sorted
    /\ \E p, q \in 1..Len(sorted) : p < q /\ Count(p) = Count(q)
    /\ \E p, q \in 1..Len(sorted) : p < q /\ Count(p) > Count(q)

\* C4: the sorted field names run by descending frequency, names of equal
\* frequency in ascending alphabetical order, and the table {apples:4, angles:4,
\* marbles:12, feelings:1, colors:1} gives [marbles, angles, apples, colors, feelings].
C4_KeySortOrder ==
    Sorted =>
        /\ \A p \in 1..(Len(sorted) - 1) :
              \/ Count(p) > Count(p + 1)
              \/ Count(p) = Count(p + 1) /\ StrLess(sorted[p], sorted[p + 1])
        /\ Keys = FixtureTable =>
              sorted = <<str_marbles, str_angles, str_apples, str_colors, str_feelings>>

C4_Witness ==
    Sorted /\ Keys = FixtureTable /\ Len(sorted) = Cardinality(SortNames)

NamesIn(elems) == UNION {DOMAIN elems[k].fields : k \in 1..Len(elems)}

\* C5: after an indexing pass without error, c.sorted holds every key of c.Keys
\* exactly once and nothing else, and the keys are the field names that occur in
\* the input's records.
C5_SortedIsPermutationOfKeys ==
    (Sorted /\ err = "nil") =>
        /\ Len(sorted) = Cardinality(DOMAIN Keys)
        /\ {sorted[p] : p \in 1..Len(sorted)} = DOMAIN Keys
        /\ DOMAIN Keys = NamesIn(doc.elems)

C5_Witness == Sorted /\ err = "nil" /\ Len(sorted) = Cardinality(FieldNames)

\* the records the indexing walk has handed to its callback so far
Processed == IF doc.first = "{" THEN {} ELSE 1..(pos - 1)

\* C6: while and after the indexer runs, the count of each field name is the
\* number of processed records that hold the field, and a name no processed
\* record holds has no entry.
C6_CountIsRecordsWithField ==
    (pass = "index" /\ pc \in {"walk_loop", "sort"}) =>
        /\ \A n \in FieldNames :
              KeysGet(Keys, n) = Cardinality({k \in Processed : n \in DOMAIN doc.elems[k].fields})
        /\ \A n \in DOMAIN Keys : Keys[n] >= 1

C6_Witness ==
    /\ pass = "index"
    /\ pc = "walk_loop"
    /\ pos = 3
    /\ KeysGet(Keys, str_example) = 2
    /\ KeysGet(Keys, str_test) = 1

CellText(record, name) == IF name \in DOMAIN record THEN toString(record[name]) ELSE <<>>

ExpectedRow(record, s) ==
    Join([c \in 1..Len(s) |-> CellText(record, s[c])], default_delimiter) \o str_newline

RECURSIVE ExpectedRows(_, _)
ExpectedRows(elems, s) ==
    IF elems = <<>> THEN <<>>
    ELSE ExpectedRow(Head(elems).fields, s) \o ExpectedRows(Tail(elems), s)

\* C7: when a conversion with a non-empty column order returns without error
\* (its writer's included), the sink holds the header and then, for each record,
\* one cell per column (the rendered value, or nothing for a missing field) with
\* one delimiter between cells and one line terminator; the input
\* [{test:hello, example:42},{example:12}] gives "example,test\n42,hello\n12,\n".
C7_RowsFillMissingFields ==
    (pc = "return" /\ err = "nil" /\ ~ew.err /\ sorted # <<>>) =>
        /\ sink.out = Join(sorted, default_delimiter) \o str_newline
                      \o ExpectedRows(doc.elems, sorted)
        /\ doc.elems = FixtureElems => sink.out = FixtureCsv

C7_Witness ==
    /\ pc = "return"
    /\ mode = "buffered"
    /\ doc.elems = FixtureElems
    /\ sink.out = FixtureCsv
    /\ results["unbuffered"].out = FixtureCsv
    /\ results["unbuffered"].status = "ok"

\* an input without its opening bracket, without its closing bracket, or whose
\* top-level value is no array
Malformed ==
    \/ doc.first = "{"
    \/ doc.first = "[" /\ ~doc.closed /\ AllObjects
    \/ doc.first = "scalar" /\ doc.elems = <<>>

\* C8 (as claimed): for a malformed input the conversion, in either mode, returns
\* an error, does not panic and writes no byte to the sink (a sink that would
\* take every write).
C8_MalformedWritesNothing ==
    \A m \in Modes :
        (Malformed /\ sinkFailAt = 0 /\ Finished(m))
            => results[m].status = "error" /\ results[m].out = <<>>

\* C9 (as claimed): a walk that meets an array element that is no object does
\* not panic.
C9_NonObjectDoesNotPanic ==
    ~(/\ pc = "panic"
      /\ doc.first # "{"
      /\ pos <= Len(doc.elems)
      /\ doc.elems[pos].kind = "scalar")

SinkFailed == sinkFailAt # 0 /\ sink.calls >= sinkFailAt

\* C10 (as claimed): once a write to the sink has failed nothing more is written
\* to it, and the conversion returns an error.
C10_SinkFailureIsReturned ==
    /\ sinkFailAt # 0 => sink.calls <= sinkFailAt
    /\ (pc = "return" /\ SinkFailed) => err # "nil"

\* C11 (as claimed): for a well-formed input with at least one field, whose source
\* fails every Seek, and a sink that takes every write, BufferedConvert writes the
\* complete CSV and returns success.
C11_BufferedNeedsNoSeek ==
    (WellFormed /\ ~seekable /\ sinkFailAt = 0 /\ NamesIn(doc.elems) # {} /\ Finished("buffered"))
        => /\ results["buffered"].status = "ok"
           /\ results["buffered"].out =
                 LET s == Sort([n \in NamesIn(doc.elems) |->
                                   Cardinality({k \in 1..Len(doc.elems) :
                                                   n \in DOMAIN doc.elems[k].fields})],
                               CHOOSE o \in Orderings(NamesIn(doc.elems)) : TRUE)
                 IN  Join(s, default_delimiter) \o str_newline \o ExpectedRows(doc.elems, s)

\* the indexing walk of the running conversion has recorded an error
IndexFailed == mode # "none" /\ pass = "index" /\ err \notin {"nil", "sink"}

\* C12 (as claimed): once the indexing walk has recorded an error, neither the
\* sorting step nor the emitting step runs: the column order stays empty and
\* nothing, header or row, goes to the sink, in both modes.
C12_IndexErrorShortCircuits ==
    IndexFailed => sorted = <<>> /\ sink.calls = 0 /\ ew.buf = <<>>

\* C13 (as claimed): when every record of a non-empty array is an empty object,
\* the conversion succeeds without panic and writes nothing, in both modes.
C13_NoFieldsIsNoOp ==
    \A m \in Modes :
        (/\ WellFormed
         /\ doc.elems # <<>>
         /\ NamesIn(doc.elems) = {}
         /\ seekable
         /\ sinkFailAt = 0
         /\ Finished(m))
            => results[m].status = "ok" /\ results[m].out = <<>>

(***************************************************************************)
(* The rendering of one value: WriteCsv applied to a converter whose       *)
(* column order is given, over a source of one record holding the value    *)
(* (and, or not, a second record without the field), as TestWriteCSV       *)
(* builds one.                                                             *)
(***************************************************************************)
RenderValues ==
    {NumberValue(n, d) : n \in (-MaxNum)..MaxNum, d \in 1..MaxDen}
    \cup {NumberValue(12345, 1)}
    \cup {StringValue(str_hello), StringValue(str_true), StringValue(<<>>)}
    \cup {StringValue(str_two_lines)}
    \cup {BoolValue(TRUE), BoolValue(FALSE), NilValue}

RenderDocs ==
    {[first |-> "[", elems |-> e, closed |-> TRUE] :
        e \in UNION {{<<ObjectElement([n \in {str_example} |-> v])>>,
                      <<ObjectElement([n \in {str_example} |-> v]), ObjectElement(EmptyMap)>>} :
                     v \in RenderValues}}

RenderInit ==
    /\ g = NoGenerator
    /\ opts = NoOptions
    /\ sizes = getBufferSizes(opts)
    /\ doc \in RenderDocs
    /\ seekable = TRUE
    /\ \/ writer = "plain" /\ writeSize = 0
       \/ writer = "bufio" /\ writeSize = LargeBuffer
    /\ sinkFailAt = 0
    /\ mode = "unbuffered"
    /\ pc = "write_csv"
    /\ pass = "index"
    /\ Keys = [n \in {str_example} |-> 1]
    /\ sorted = <<str_example>>
    /\ buffer = <<>>
    /\ err = "nil"
    /\ pos = 1
    /\ cursor = "start"
    /\ ew = newErrorWriter
    /\ sink = [out |-> <<>>, calls |-> 0]
    /\ i = 1
    /\ results = [m \in {"unbuffered", "buffered"} |-> NoResult]

RenderNext ==
    \/ WriteCsv
    \/ WalkOpen
    \/ WalkElement
    \/ WalkClose
    \/ WriteCsvEnd
    \/ Return

RenderSpec == RenderInit /\ [][RenderNext]_vars

\* the value the first record holds in the column "example"
Rendered == doc.elems[1].fields[str_example]

\* the sink's text after the header line "example\n"
Body == SubSeq(sink.out, Len(str_example) + 2, Len(sink.out))

\* the first row's only cell: the body without the line terminators that
\* close the rows (one per record, the second record's cell being empty)
Cell == SubSeq(Body, 1, Len(Body) - Len(doc.elems))

IsDigit(b) == b \in 48..57

\* the text of a whole number in base 10: digits, behind one "-" if any, and
\* no leading zero
IsDecimal(t) ==
    LET ds == IF t # <<>> /\ t[1] = 45 THEN Tail(t) ELSE t
    IN  /\ ds # <<>>
        /\ \A k \in 1..Len(ds) : IsDigit(ds[k])
        /\ Len(ds) > 1 => ds[1] # 48

RECURSIVE ParseNat(_)
ParseNat(ds) ==
    IF ds = <<>> THEN 0
    ELSE 10 * ParseNat(SubSeq(ds, 1, Len(ds) - 1)) + (ds[Len(ds)] - 48)

ParseInt(t) == IF t # <<>> /\ t[1] = 45 THEN -ParseNat(Tail(t)) ELSE ParseNat(t)

\* C14: a number n/d is written as the base-10 text of the whole number q nearest
\* to it between it and zero (q*d <= n < (q+1)*d when n >= 0, (q-1)*d < n <= q*d
\* when n < 0): no decimal point, no trailing zeros, and 4 gives "4", 12345
\* gives "12345".
C14_NumbersTruncateTowardZero ==
    (pc = "return" /\ Rendered.kind = "float64") =>
        LET n == Rendered.num
            d == Rendered.den
            q == ParseInt(Cell)
        IN  /\ IsDecimal(Cell)
            /\ n >= 0 => (q >= 0 /\ q * d <= n /\ n < (q + 1) * d)
            /\ n < 0 => (q <= 0 /\ (q - 1) * d < n /\ n <= q * d)
            /\ (n = 4 /\ d = 1) => Cell = <<52>>
            /\ (n = 12345 /\ d = 1) => Cell = <<49, 50, 51, 52, 53>>

C14_Witness ==
    /\ pc = "return"
    /\ Rendered = NumberValue(-7, 2)
    /\ Cell = <<45, 51>>

\* C15: a string is written unchanged, a boolean as "true" or "false", and null
\* as nothing, so that the row of a record holding null is the row of a record
\* without the field.
C15_StringBoolNullText ==
    pc = "return" =>
        /\ Rendered.kind = "string" => Cell = Rendered.str
        /\ Rendered.kind = "bool" =>
              Cell = IF Rendered.bool THEN <<116, 114, 117, 101>> ELSE <<102, 97, 108, 115, 101>>
        /\ Rendered.kind = "nil" => Cell = <<>>
        /\ (Rendered.kind = "nil" /\ Len(doc.elems) = 2) => Body = <<10, 10>>

C15_Witness ==
    /\ pc = "return"
    /\ Rendered.kind = "nil"
    /\ Len(doc.elems) = 2
    /\ sink.out = str_example \o <<10, 10, 10>>

\* C16 (as claimed): a positive ReadBufferSize or WriteBufferSize gives the size
\* made from it (the option times 1000, as the default is scaled), and an option
\* left at zero gives the default, 1024 times 1000.
C16_OptionOrDefault ==
    pc = "sized" =>
        /\ opts.ReadBufferSize > 0 => sizes[1] = opts.ReadBufferSize * 1000
        /\ opts.WriteBufferSize > 0 => sizes[2] = opts.WriteBufferSize * 1000
        /\ opts.ReadBufferSize = 0 => sizes[1] = default_read_buffer_size * 1000
        /\ opts.WriteBufferSize = 0 => sizes[2] = default_write_buffer_size * 1000

\* C17 (as claimed): when a conversion has ended, by return or by panic, over a
\* sink that takes every write, the buffer of its writer holds no byte: all
\* that the writer accepted is in the sink.
C17_AllFlushedAtExit ==
    (pc = "idle" /\ mode # "none" /\ writer = "bufio" /\ sinkFailAt = 0) => ew.buf = <<>>

\* C18: while UnbufferedConvert runs, c.buffer stays empty, and what it keeps are
\* the counts of the input's fields and a column order no longer than the number
\* of distinct fields; in BufferedConvert the buffer holds exactly the records
\* the indexing walk has handed to bufferData.
C18_StreamingRetainsNoRecord ==
    /\ mode = "unbuffered" =>
          /\ buffer = <<>>
          /\ DOMAIN Keys \subseteq NamesIn(doc.elems)
          /\ Len(sorted) <= Cardinality(NamesIn(doc.elems))
    /\ mode = "buffered" =>
          /\ Len(buffer) = pos - 1
          /\ \A k \in 1..Len(buffer) : buffer[k] = doc.elems[k].fields

C18_Witness ==
    /\ mode = "unbuffered"
    /\ pass = "emit"
    /\ pos = 3
    /\ Len(sorted) = 2
    /\ buffer = <<>>

\* C19: a step of the walk in which writeRecord returns an error ends the walk:
\* c.err becomes that error, the decoder stays on the element and the source's
\* cursor stays where it is; from then to the return of the conversion no
\* element is handed to the callback, nothing more is written, and c.err and
\* the cursor do not change.
C19_CallbackErrorStopsWalk ==
    [][/\ (pc = "walk_loop" /\ pass = "emit" /\ More /\ ew'.err) =>
             /\ err' = "sink"
             /\ pc' = "write_end"
             /\ pos' = pos
             /\ cursor' = cursor
       /\ (mode = "unbuffered" /\ err = "sink" /\ pc # "idle") =>
             /\ pc' # "walk_loop"
             /\ err' = err
             /\ pos' = pos
             /\ cursor' = cursor
             /\ sink' = sink]_vars

C19_Witness ==
    /\ mode = "unbuffered"
    /\ pc = "write_end"
    /\ err = "sink"
    /\ pos <= Len(doc.elems)
    /\ cursor = "moved"
    /\ results["unbuffered"].status = "none"

\* C20: when a walk has ended and c.err is nil, the source's cursor is at the
\* start and the walk has gone through every element, so that after the second
\* walk of UnbufferedConvert the counts are those of the very records the rows
\* were written for; when the input is well formed and Seek fails, the walk
\* ends with c.err the file read failure.
C20_WalkRewindsOrFails ==
    /\ (pc \in {"sort", "write_end"} /\ mode # "none" /\ err = "nil") =>
          /\ cursor = "start"
          /\ pos = Len(doc.elems) + 1
          /\ \A n \in DOMAIN Keys :
                Keys[n] = Cardinality({k \in 1..Len(doc.elems) : n \in DOMAIN doc.elems[k].fields})
    /\ (pc = "sort" /\ mode # "none" /\ WellFormed /\ ~seekable) =>
          /\ err = "file read failure"
          /\ cursor = "moved"

C20_Witness ==
    /\ mode = "unbuffered"
    /\ pc = "write_end"
    /\ err = "nil"
    /\ Len(doc.elems) = 2
    /\ pos = 3
    /\ cursor = "start"

\* C21: a call of WriteCsv on a converter that holds an error, or whose column
\* order is empty, returns without a write and without a walk (sink, writer,
\* decoder and cursor stay as they are); and as long as UnbufferedConvert has
\* not passed that test, which it never does after a failed indexing pass, the
\* sink has received nothing.
C21_WriteCsvGuards ==
    /\ [](mode = "unbuffered" /\ pass = "index" => sink = [out |-> <<>>, calls |-> 0])
    /\ [](mode = "unbuffered" /\ pass = "emit" => WellFormed /\ seekable /\ sorted # <<>>)
    /\ [][(pc = "write_csv" /\ (err # "nil" \/ sorted = <<>>)) =>
             /\ pc' = "return"
             /\ sink' = sink
             /\ ew' = ew
             /\ pass' = pass
             /\ pos' = pos
             /\ cursor' = cursor]_vars

C21_Witness ==
    /\ mode = "unbuffered"
    /\ pc = "return"
    /\ pass = "index"
    /\ err # "nil"
    /\ sorted # <<>>
    /\ sink.calls = 0

\* the lines of a text: its pieces between line terminators, each terminator
\* closing one line (what follows the last terminator, if anything, is a line)
RECURSIVE Lines(_, _)
Lines(t, line) ==
    IF t = <<>> THEN (IF line = <<>> THEN <<>> ELSE <<line>>)
    ELSE IF Head(t) = 10 THEN <<line>> \o Lines(Tail(t), <<>>)
    ELSE Lines(Tail(t), Append(line, Head(t)))

\* C22 (as claimed): when a conversion with a non-empty column order has ended
\* without error, the sink holds one line more than the input has records: the
\* first line is the header, line k + 1 is the row of record k, and the text
\* ends with the last row's terminator.
C22_OneLinePerRecord ==
    (pc = "return" /\ err = "nil" /\ ~ew.err /\ sorted # <<>>) =>
        LET ls == Lines(sink.out, <<>>)
        IN  /\ Len(ls) = Len(doc.elems) + 1
            /\ ls[1] = Join(sorted, default_delimiter)
            /\ \A k \in 1..Len(doc.elems) :
                  ls[k + 1] \o str_newline = ExpectedRow(doc.elems[k].fields, sorted)
            /\ sink.out[Len(sink.out)] = 10

\* the tables extractKeys can build from `keys` by visiting the records `left`
\* of the input, in any order of the records and of each record's keys
RECURSIVE TablesFrom(_, _)
TablesFrom(left, keys) ==
    IF left = {} THEN {keys}
    ELSE UNION {TablesFrom(left \ {v[1]}, extractKeys(v[2], keys)) :
                   v \in UNION {{<<k, o>> : o \in Orderings(DOMAIN doc.elems[k].fields)} :
                                k \in left}}

\* C23: when the indexer has run without error, in the first conversion or in
\* the second over the same input, c.Keys is the one table that every order of
\* visiting the records, and the keys within each, builds, and c.sorted is the
\* one order the sorter gives for it.
C23_IndexingIsOrderIndependent ==
    (Sorted /\ err = "nil" /\ mode # "none") =>
        /\ TablesFrom(1..Len(doc.elems), EmptyMap) = {Keys}
        /\ \A t \in TablesFrom(1..Len(doc.elems), EmptyMap) :
              \A o \in Orderings(DOMAIN t) : Sort(t, o) = sorted

C23_Witness ==
    /\ Sorted
    /\ err = "nil"
    /\ mode = "buffered"
    /\ Len(doc.elems) = 2
    /\ DOMAIN doc.elems[1].fields # DOMAIN doc.elems[2].fields
    /\ Len(sorted) = 2
    /\ results["unbuffered"].status = "ok"

\* C24: on the names of any frequency table Less is a strict total order (no
\* name is before itself, of two distinct names exactly one is before the
\* other, and before is transitive), and the column order the sorter computes
\* is the one sequence every collection order of the table's keys sorts to.
C24_SorterIsDeterministic ==
    Sorted =>
        LET before(a, b) == Less(Keys, <<a, b>>, 1, 2)
        IN  /\ \A a \in DOMAIN Keys : ~before(a, a)
            /\ \A a, b \in DOMAIN Keys : a # b => (before(a, b) <=> ~before(b, a))
            /\ \A a, b, c \in DOMAIN Keys : (before(a, b) /\ before(b, c)) => before(a, c)
            /\ \A o \in Orderings(DOMAIN Keys) : Sort(Keys, o) = sorted

C24_Witness ==
    /\ Sorted
    /\ DOMAIN Keys = SortNames
    /\ \A n \in DOMAIN Keys : Keys[n] = 1
    /\ Len(sorted) = Cardinality(SortNames)

\* C25 (as claimed): for an input whose first token is not "[", no element is
\* handed to the callback: no field is counted, no record is buffered and no
\* byte is written.
C25_NoWalkWithoutOpeningBracket ==
    (mode # "none" /\ doc.first \in {"{", "scalar"}) =>
        /\ Keys = EmptyMap
        /\ buffer = <<>>
        /\ sink.out = <<>>

\* C26 (as claimed): for every field count and size the generator accepts, with
\* a sink that takes every write, the generator reaches the write of the final
\* "]" (GenerateData returns after it).
C26_GeneratorTerminates == <>(g.pc = "done")

====
